---- MODULE Spec2Model ----
(***************************************************************************)
(* realm::List (src/list.cpp): a facade over a LinkView it does not own.   *)
(* The facade has one field, m_link_view; everything else in the state is  *)
(* the LinkView behind it and a record of the most recent facade call.     *)
(***************************************************************************)
EXTENDS Integers, Sequences, FiniteSets, TLC

\* Largest number of links the LinkView holds in the model.
MaxLen == 2
\* Largest target row index a caller or an external writer supplies.
MaxTarget == 1
\* Width of std::size_t in the model (64 in the build).
IndexBits == 4

SIZE_MAX == 2 ^ IndexBits - 1

Targets == 0 .. MaxTarget
\* Row indices callers pass: everything around the sizes that occur, and the
\* largest value of the index type (more than one decimal digit).
Indices == (0 .. MaxLen + 1) \cup {SIZE_MAX}

SeqsOfLen(n) == [1 .. n -> Targets]
Views == UNION {SeqsOfLen(n) : n \in 0 .. MaxLen}

VARIABLES
    view,      \* the links m_link_view reports (size, get, set act on these)
    store,     \* the links of the underlying store; differs from view while
               \* an external mutation is deferred
    attached,  \* m_link_view->is_attached()
    last,      \* the most recent facade call and what it did, Idle after an
               \* external event
    hist       \* history of the run: see HistInit

vars == <<view, store, attached, last, hist>>

OutOfRange == "std::out_of_range"
NotAttached == "std::runtime_error"
NoThrow == "none"

NoRow == [table |-> "none", index |-> 0 - 1]
NoSize == 0 - 1

----------------------------------------------------------------------------
(* The collaborator: LinkView, as the facade uses it.                      *)

\* A Row accessor of the target table.
Row(t) == [table |-> "target", index |-> t]

\* One invocation of a LinkView method, with the size the LinkView had when
\* it was invoked.
Call(fn, ndx, target, v) ==
    [fn |-> fn, ndx |-> ndx, target |-> target, size |-> Len(v)]

LV_size(v) == Len(v)

LV_is_attached(a) == a

\* LinkView::get: the row the link at ndx points to. Its precondition is
\* ndx < size(); outside it the read is unchecked and yields any row.
LV_get(v, ndx) ==
    IF ndx < Len(v) THEN {Row(v[ndx + 1])} ELSE {Row(t) : t \in Targets}

\* LinkView::set: the link at ndx now points to target. Outside the
\* precondition the write is unchecked and leaves any contents.
LV_set(v, ndx, target) ==
    IF ndx < Len(v) THEN {[v EXCEPT ![ndx + 1] = target]} ELSE Views

\* The same write reaching the underlying store.
LV_set_store(s, ndx, target) ==
    IF ndx < Len(s) THEN [s EXCEPT ![ndx + 1] = target] ELSE s

\* sync_if_needed: the view is reconciled with the store.
LV_sync_if_needed(v, s) == s

Stale == view # store

----------------------------------------------------------------------------
(* std::to_string and the text of the out_of_range exception.              *)

DigitChar(d) ==
    CASE d = 0 -> "0" [] d = 1 -> "1" [] d = 2 -> "2" [] d = 3 -> "3"
      [] d = 4 -> "4" [] d = 5 -> "5" [] d = 6 -> "6" [] d = 7 -> "7"
      [] d = 8 -> "8" [] d = 9 -> "9"

RECURSIVE to_string(_)
to_string(n) ==
    IF n < 10 THEN DigitChar(n)
    ELSE to_string(n \div 10) \o DigitChar(n % 10)

out_of_range_what(row_ndx, size) ==
    "Index " \o to_string(row_ndx) \o " is outside of range 0..."
        \o to_string(size) \o "."

not_attached_what == "Tableview is not attached"

----------------------------------------------------------------------------
(* The facade. Each operator is one method of List: what it throws, what   *)
(* it returns, the LinkView methods it invokes in order, and the LinkView  *)
(* contents it leaves.                                                     *)

Result(thrown, what, ret_size, ret_row, calls, v, s) ==
    [thrown |-> thrown, what |-> what, ret_size |-> ret_size,
     ret_row |-> ret_row, calls |-> calls, view |-> v, store |-> s]

\* Variant of verify_valid_row: > where the code has >=.
verify_valid_row_off_by_one(row_ndx, v) ==
    LET size == LV_size(v)
        calls == <<Call("size", 0, 0, v)>>
    IN  IF row_ndx > size
        THEN [thrown |-> OutOfRange,
              what |-> out_of_range_what(row_ndx, size), calls |-> calls]
        ELSE [thrown |-> NoThrow, what |-> "", calls |-> calls]

\* Variant of verify_valid_row: the size is the one an earlier size() call
\* saw, when there was one.
verify_valid_row_cached_size(row_ndx, v) ==
    LET size == IF hist.size_ret # NoSize THEN hist.size_ret ELSE LV_size(v)
        calls == <<>>
    IN  IF row_ndx >= size
        THEN [thrown |-> OutOfRange,
              what |-> out_of_range_what(row_ndx, size), calls |-> calls]
        ELSE [thrown |-> NoThrow, what |-> "", calls |-> calls]

\* List::verify_valid_row
verify_valid_row(row_ndx, v) ==
    LET size == LV_size(v)
        calls == <<Call("size", 0, 0, v)>>
    IN  IF row_ndx >= size
        THEN [thrown |-> OutOfRange,
              what |-> out_of_range_what(row_ndx, size), calls |-> calls]
        ELSE [thrown |-> NoThrow, what |-> "", calls |-> calls]

\* Variant of size: the value of the first query is kept.
List_size_cached(v, s) ==
    IF hist.size_ret # NoSize
    THEN {Result(NoThrow, "", hist.size_ret, NoRow, <<>>, v, s)}
    ELSE {Result(NoThrow, "", LV_size(v), NoRow,
                 <<Call("size", 0, 0, v)>>, v, s)}

\* List::size
List_size(v, s) ==
    {Result(NoThrow, "", LV_size(v), NoRow, <<Call("size", 0, 0, v)>>, v, s)}

\* Variant of get: the attachment check runs first.
List_get_checks_attached(row_ndx, v, s) ==
    LET chk == verify_valid_row(row_ndx, v)
        att == <<Call("is_attached", 0, 0, v)>>
    IN  IF ~LV_is_attached(attached)
        THEN {Result(NotAttached, not_attached_what, NoSize, NoRow, att, v, s)}
        ELSE IF chk.thrown # NoThrow
        THEN {Result(chk.thrown, chk.what, NoSize, NoRow,
                     att \o chk.calls, v, s)}
        ELSE {Result(NoThrow, "", NoSize, r,
                     att \o chk.calls \o <<Call("get", row_ndx, 0, v)>>, v, s)
                 : r \in LV_get(v, row_ndx)}

\* List::get
List_get(row_ndx, v, s) ==
    LET chk == verify_valid_row(row_ndx, v)
    IN  IF chk.thrown # NoThrow
        THEN {Result(chk.thrown, chk.what, NoSize, NoRow, chk.calls, v, s)}
        ELSE {Result(NoThrow, "", NoSize, r,
                     chk.calls \o <<Call("get", row_ndx, 0, v)>>, v, s)
                 : r \in LV_get(v, row_ndx)}

\* Variant of set: the target is bounds-checked like the index.
List_set_checks_target(row_ndx, target_row_ndx, v, s) ==
    LET chk == verify_valid_row(row_ndx, v)
        chk2 == verify_valid_row(target_row_ndx, v)
    IN  IF chk.thrown # NoThrow
        THEN {Result(chk.thrown, chk.what, NoSize, NoRow, chk.calls, v, s)}
        ELSE IF chk2.thrown # NoThrow
        THEN {Result(chk2.thrown, chk2.what, NoSize, NoRow,
                     chk.calls \o chk2.calls, v, s)}
        ELSE {Result(NoThrow, "", NoSize, NoRow,
                     chk.calls \o chk2.calls
                         \o <<Call("set", row_ndx, target_row_ndx, v)>>,
                     w, LV_set_store(s, row_ndx, target_row_ndx))
                 : w \in LV_set(v, row_ndx, target_row_ndx)}

\* Variant of set: the write comes before the bounds check.
List_set_write_first(row_ndx, target_row_ndx, v, s) ==
    LET chk == verify_valid_row(row_ndx, v)
    IN  {Result(chk.thrown, chk.what, NoSize, NoRow,
                <<Call("set", row_ndx, target_row_ndx, v)>> \o chk.calls,
                w, LV_set_store(s, row_ndx, target_row_ndx))
            : w \in LV_set(v, row_ndx, target_row_ndx)}

\* Variant of set: the two arguments reach the LinkView in the other order.
List_set_swapped(row_ndx, target_row_ndx, v, s) ==
    LET chk == verify_valid_row(row_ndx, v)
    IN  IF chk.thrown # NoThrow
        THEN {Result(chk.thrown, chk.what, NoSize, NoRow, chk.calls, v, s)}
        ELSE {Result(NoThrow, "", NoSize, NoRow,
                     chk.calls \o <<Call("set", target_row_ndx, row_ndx, v)>>,
                     w, LV_set_store(s, target_row_ndx, row_ndx))
                 : w \in LV_set(v, target_row_ndx, row_ndx)}

\* List::set
List_set(row_ndx, target_row_ndx, v, s) ==
    LET chk == verify_valid_row(row_ndx, v)
    IN  IF chk.thrown # NoThrow
        THEN {Result(chk.thrown, chk.what, NoSize, NoRow, chk.calls, v, s)}
        ELSE {Result(NoThrow, "", NoSize, NoRow,
                     chk.calls \o <<Call("set", row_ndx, target_row_ndx, v)>>,
                     w, LV_set_store(s, row_ndx, target_row_ndx))
                 : w \in LV_set(v, row_ndx, target_row_ndx)}

\* Variant of verify_attached: no attachment query.
List_verify_attached_no_check(v, s, a) ==
    {Result(NoThrow, "", NoSize, NoRow,
            <<Call("sync_if_needed", 0, 0, v)>>, LV_sync_if_needed(v, s), s)}

\* Variant of verify_attached: no refresh.
List_verify_attached_no_sync(v, s, a) ==
    IF ~LV_is_attached(a)
    THEN {Result(NotAttached, not_attached_what, NoSize, NoRow,
                 <<Call("is_attached", 0, 0, v)>>, v, s)}
    ELSE {Result(NoThrow, "", NoSize, NoRow,
                 <<Call("is_attached", 0, 0, v)>>, v, s)}

\* Variant of verify_attached: the refresh comes before the query.
List_verify_attached_sync_first(v, s, a) ==
    LET calls == <<Call("sync_if_needed", 0, 0, v),
                   Call("is_attached", 0, 0, LV_sync_if_needed(v, s))>>
    IN  IF ~LV_is_attached(a)
        THEN {Result(NotAttached, not_attached_what, NoSize, NoRow, calls,
                     LV_sync_if_needed(v, s), s)}
        ELSE {Result(NoThrow, "", NoSize, NoRow, calls,
                     LV_sync_if_needed(v, s), s)}

\* List::verify_attached
List_verify_attached(v, s, a) ==
    IF ~LV_is_attached(a)
    THEN {Result(NotAttached, not_attached_what, NoSize, NoRow,
                 <<Call("is_attached", 0, 0, v)>>, v, s)}
    ELSE {Result(NoThrow, "", NoSize, NoRow,
                 <<Call("is_attached", 0, 0, v),
                   Call("sync_if_needed", 0, 0, v)>>,
                 LV_sync_if_needed(v, s), s)}

----------------------------------------------------------------------------
(* State machine: facade calls interleaved with external events.           *)

Idle ==
    [op |-> "none", ndx |-> 0, target |-> 0, thrown |-> NoThrow, what |-> "",
     ret_size |-> NoSize, ret_row |-> NoRow, calls |-> <<>>]

Done(op, ndx, target, r) ==
    [op |-> op, ndx |-> ndx, target |-> target, thrown |-> r.thrown,
     what |-> r.what, ret_size |-> r.ret_size, ret_row |-> r.ret_row,
     calls |-> r.calls]

\* The history the properties below refer to.
\*   synced    "was_stale" or "was_fresh" when verify_attached has returned
\*             (on a stale or an up-to-date LinkView) and no external
\*             mutation followed; "no" otherwise
\*   got       some get() returned a row while the LinkView was attached
\*   size_ret  what the most recent size() returned (NoSize before the first)
\*   size_len  the number of links the LinkView had at that call
\*   size_prev what the size() before that returned
\*   after_set the call recorded in last directly followed a set() that
\*             returned, with the same row_ndx
HistInit ==
    [synced |-> "no", got |-> FALSE, size_ret |-> NoSize,
     size_len |-> NoSize, size_prev |-> NoSize, after_set |-> FALSE]

Init ==
    /\ view \in Views
    /\ store = view
    /\ attached = TRUE
    /\ last = Idle
    /\ hist = HistInit

Size ==
    \E r \in List_size(view, store) :
        /\ last' = Done("size", 0, 0, r)
        /\ view' = r.view
        /\ store' = r.store
        /\ hist' = [hist EXCEPT !.size_ret = r.ret_size,
                                 !.size_len = Len(view),
                                 !.size_prev = hist.size_ret,
                                 !.after_set = FALSE]
        /\ UNCHANGED attached

Get ==
    \E i \in Indices : \E r \in List_get(i, view, store) :
        /\ last' = Done("get", i, 0, r)
        /\ view' = r.view
        /\ store' = r.store
        /\ hist' = [hist EXCEPT
                      !.got = @ \/ (r.thrown = NoThrow /\ attached),
                      !.after_set = /\ last.op = "set"
                                    /\ last.thrown = NoThrow
                                    /\ last.ndx = i]
        /\ UNCHANGED attached

Set ==
    \E i \in Indices : \E t \in Targets :
      \E r \in List_set(i, t, view, store) :
        /\ last' = Done("set", i, t, r)
        /\ view' = r.view
        /\ store' = r.store
        /\ hist' = [hist EXCEPT !.after_set = FALSE]
        /\ UNCHANGED attached

VerifyAttached ==
    \E r \in List_verify_attached(view, store, attached) :
        /\ last' = Done("verify_attached", 0, 0, r)
        /\ view' = r.view
        /\ store' = r.store
        /\ hist' = [hist EXCEPT
                      !.synced = IF r.thrown # NoThrow THEN "no"
                                 ELSE IF Stale THEN "was_stale"
                                 ELSE "was_fresh",
                      !.after_set = FALSE]
        /\ UNCHANGED attached

\* External events: another accessor of the same store adds or removes a
\* link. The LinkView sees it at once, or only at its next sync_if_needed;
\* at most one mutation is deferred at a time (a mutation of a store whose
\* LinkView is stale reconciles it).
ExternalGrow ==
    /\ attached
    /\ Len(store) < MaxLen
    /\ \E t \in Targets : \E deferred \in {d \in BOOLEAN : d => ~Stale} :
        /\ store' = Append(store, t)
        /\ view' = IF deferred THEN view ELSE store'
    /\ last' = Idle
    /\ hist' = [hist EXCEPT !.synced = "no", !.after_set = FALSE]
    /\ UNCHANGED attached

ExternalShrink ==
    /\ attached
    /\ Len(store) > 0
    /\ \E deferred \in {d \in BOOLEAN : d => ~Stale} :
        /\ store' = SubSeq(store, 1, Len(store) - 1)
        /\ view' = IF deferred THEN view ELSE store'
    /\ last' = Idle
    /\ hist' = [hist EXCEPT !.synced = "no", !.after_set = FALSE]
    /\ UNCHANGED attached

\* The owning row is deleted or the transaction ends.
Detach ==
    /\ attached
    /\ attached' = FALSE
    /\ last' = Idle
    /\ hist' = [hist EXCEPT !.after_set = FALSE]
    /\ UNCHANGED <<view, store>>

Next ==
    \/ Size
    \/ Get
    \/ Set
    \/ VerifyAttached
    \/ ExternalGrow
    \/ ExternalShrink
    \/ Detach

Spec == Init /\ [][Next]_vars

----------------------------------------------------------------------------
(* Properties.                                                             *)

\* The text an out_of_range exception has to carry for index i and size n,
\* built with TLC's own number formatting.
ExpectedWhat(i, n) ==
    "Index " \o ToString(i) \o " is outside of range 0..." \o ToString(n) \o "."

Invoked(calls, fns) == {k \in DOMAIN calls : calls[k].fn \in fns}

\* C1: get(i) on a sequence of size n returns the element at position i
\* exactly when i < n, and otherwise throws out_of_range whose text carries
\* i and the n the bounds check saw.
C1_GetBounds ==
    [][last'.op = "get" =>
        IF last'.ndx < Len(view)
        THEN /\ last'.thrown = NoThrow
             /\ last'.ret_row = Row(view[last'.ndx + 1])
        ELSE /\ last'.thrown = OutOfRange
             /\ last'.ret_row = NoRow
             /\ last'.what = ExpectedWhat(last'.ndx, Len(view))]_vars

\* get(n) on a non-empty sequence of size n was rejected.
C1_Witness ==
    /\ last.op = "get"
    /\ last.thrown = OutOfRange
    /\ Len(view) > 0
    /\ last.ndx = Len(view)

\* C2: set(i, t) succeeds exactly when i < n, whatever t is, and then the
\* LinkView's set is invoked with (i, t) as given; otherwise it throws
\* out_of_range carrying i and n.
C2_SetBounds ==
    [][last'.op = "set" =>
        IF last'.ndx < Len(view)
        THEN /\ last'.thrown = NoThrow
             /\ last'.calls = <<Call("size", 0, 0, view),
                                Call("set", last'.ndx, last'.target, view)>>
             /\ view' = [view EXCEPT ![last'.ndx + 1] = last'.target]
        ELSE /\ last'.thrown = OutOfRange
             /\ last'.what = ExpectedWhat(last'.ndx, Len(view))]_vars

\* set(i, t) returned with t no smaller than the size.
C2_Witness ==
    /\ last.op = "set"
    /\ last.thrown = NoThrow
    /\ last.target >= Len(view)
    /\ view[last.ndx + 1] = last.target

\* C3: a get or set that throws out_of_range leaves the LinkView as it was
\* and has invoked neither its get nor its set.
C3_FailureLeavesSequence ==
    [][last'.thrown = OutOfRange =>
        /\ view' = view
        /\ store' = store
        /\ attached' = attached
        /\ Invoked(last'.calls, {"get", "set"}) = {}]_vars

\* set on a full sequence with an index past its end was rejected.
C3_Witness ==
    /\ last.op = "set"
    /\ last.thrown = OutOfRange
    /\ Len(view) = MaxLen
    /\ last.ndx > Len(view)

\* C4: verify_attached on a detached LinkView throws runtime_error, whatever
\* the LinkView holds and whatever earlier calls returned.
C4_DetachedThrows ==
    [][(last'.op = "verify_attached" /\ ~attached) =>
        /\ last'.thrown = NotAttached
        /\ last'.what = "Tableview is not attached"]_vars

\* verify_attached threw on a non-empty detached LinkView from which a get
\* had returned a row while it was attached.
C4_Witness ==
    /\ last.op = "verify_attached"
    /\ last.thrown = NotAttached
    /\ ~attached
    /\ hist.got
    /\ Len(view) > 0

\* C5: verify_attached on an attached, stale LinkView returns and refreshes
\* it; until the next external mutation size() and get(i) answer from the
\* refreshed contents.
C5_RefreshThenFresh ==
    [][/\ (last'.op = "verify_attached" /\ attached /\ Stale) =>
            /\ last'.thrown = NoThrow
            /\ Invoked(last'.calls, {"sync_if_needed"}) # {}
            /\ view' = store
       /\ (hist.synced = "was_stale" /\ last'.op = "size") =>
            last'.ret_size = Len(store)
       /\ (hist.synced = "was_stale" /\ last'.op = "get") =>
            IF last'.ndx < Len(store)
            THEN last'.ret_row = Row(store[last'.ndx + 1])
            ELSE last'.thrown = OutOfRange]_vars

\* A get returned a row after verify_attached had refreshed a stale
\* LinkView.
C5_Witness ==
    /\ hist.synced = "was_stale"
    /\ last.op = "get"
    /\ last.thrown = NoThrow

\* C6: size() returns the number of links the LinkView has at that call;
\* when that number differs from the one at the previous size() call, the
\* two calls return different values.
C6_SizeFresh ==
    [][last'.op = "size" =>
        /\ last'.thrown = NoThrow
        /\ last'.ret_size = Len(view)
        /\ (hist.size_len # NoSize /\ hist.size_len # Len(view)) =>
              last'.ret_size # hist.size_ret]_vars

\* Two size() calls in a row, with an external event between them, returned
\* different values.
C6_Witness ==
    /\ last.op = "size"
    /\ hist.size_prev # NoSize
    /\ hist.size_prev # last.ret_size

\* C7: a get(i) that directly follows a set(i, t) that returned, with no
\* external event between them, returns the row of t.
C7_RoundTrip ==
    [][(/\ last.op = "set"
        /\ last.thrown = NoThrow
        /\ last'.op = "get"
        /\ last'.ndx = last.ndx) =>
            /\ last'.thrown = NoThrow
            /\ last'.ret_row = Row(last.target)
            /\ last'.calls[2] = Call("get", last.ndx, 0, view)]_vars

\* Such a get returned.
C7_Witness ==
    /\ hist.after_set
    /\ last.op = "get"
    /\ last.thrown = NoThrow
    /\ last.ret_row.index = MaxTarget

\* C8: the LinkView's get and set are only invoked with an index below the
\* size the LinkView has at that invocation; a get or set that invokes
\* neither has thrown out_of_range.
C8_CollaboratorPrecondition ==
    /\ \A k \in Invoked(last.calls, {"get", "set"}) :
          last.calls[k].ndx < last.calls[k].size
    /\ last.op \in {"get", "set"} =>
          (Invoked(last.calls, {"get", "set"}) = {}
              <=> last.thrown = OutOfRange)

\* get(0) was rejected on a LinkView from which a get had returned a row
\* earlier: index 0 was in range then and is not after the shrink.
C8_Witness ==
    /\ last.op = "get"
    /\ last.ndx = 0
    /\ last.thrown = OutOfRange
    /\ hist.got

\* C9: size, get and set never query is_attached, never call sync_if_needed
\* and never throw runtime_error; on a detached or stale LinkView what they
\* do follows from the size and contents it reports.
C9_NoAttachmentCheck ==
    [][last'.op \in {"size", "get", "set"} =>
        /\ Invoked(last'.calls, {"is_attached", "sync_if_needed"}) = {}
        /\ last'.thrown # NotAttached
        /\ (~attached \/ Stale) =>
              /\ last'.op = "size" =>
                    last'.thrown = NoThrow /\ last'.ret_size = Len(view)
              /\ last'.op \in {"get", "set"} =>
                    last'.thrown = IF last'.ndx < Len(view) THEN NoThrow
                                   ELSE OutOfRange
              /\ (last'.op = "get" /\ last'.ndx < Len(view)) =>
                    last'.ret_row = Row(view[last'.ndx + 1])]_vars

\* A get returned a row from a detached LinkView.
C9_Witness ==
    /\ ~attached
    /\ last.op = "get"
    /\ last.thrown = NoThrow

\* C10: verify_attached queries is_attached first; attached, it calls
\* sync_if_needed once, after the query; detached, it calls nothing else
\* and leaves the LinkView as it was.
C10_QueryBeforeRefresh ==
    [][last'.op = "verify_attached" =>
        IF attached
        THEN last'.calls = <<Call("is_attached", 0, 0, view),
                             Call("sync_if_needed", 0, 0, view)>>
        ELSE /\ last'.calls = <<Call("is_attached", 0, 0, view)>>
             /\ last'.thrown = NotAttached
             /\ view' = view
             /\ store' = store
             /\ attached' = attached]_vars

\* verify_attached threw on a detached LinkView with a deferred mutation,
\* which is still deferred.
C10_Witness ==
    /\ last.op = "verify_attached"
    /\ last.thrown = NotAttached
    /\ Stale

====
